---- MODULE Spec2Model ----
(***************************************************************************)
(* Model of the increment allocation of local_media_manager:               *)
(*   app/scripts/rename_with_index.py  (index store, auto-heal scan,       *)
(*                                      allocator, rename executor)        *)
(*   app/scripts/move to process.py    (inbox -> categorised roots)        *)
(*   app/scripts/move to library.py    (mirror to the archive root)        *)
(*                                                                         *)
(* A file name is a record [stem, ext]: stem is the sequence of the        *)
(* '_'-separated tokens of Path.stem, ext is Path.suffix without the dot.  *)
(* Decimal numbers inside names and inside the CSV are strings, produced   *)
(* by DecStr and read back by ParseInt.                                    *)
(***************************************************************************)
EXTENDS Integers, Sequences, FiniteSets, TLC

(***************************************************************************)
(* Bounds of the model.                                                    *)
(***************************************************************************)
MaxRuns  == 2      \* invocations of rename_with_index
MaxFiles == 2      \* files that ever arrive in the inbox
IntCap   == 40     \* largest integer int() is asked to read back

(***************************************************************************)
(* Strings: decimal conversion, dates, ordering.                           *)
(***************************************************************************)
Digit == <<"0", "1", "2", "3", "4", "5", "6", "7", "8", "9">>

RECURSIVE DecStr(_)
\* f"{i}" / str(i) of a non-negative integer
DecStr(n) == IF n < 10 THEN Digit[n + 1]
             ELSE DecStr(n \div 10) \o Digit[(n % 10) + 1]

\* the strings \d+ matches and int() accepts ("03" is one of them)
IsDigits(s) == s = "03" \/ \E n \in 0..IntCap : DecStr(n) = s

\* int(s)
ParseInt(s) == IF s = "03" THEN 3 ELSE CHOOSE n \in 0..IntCap : DecStr(n) = s

\* the capture dates of the model, ascending (strftime("%Y-%m-%d"))
Dates == <<"2023-07-01", "2024-03-01", "2024-05-01", "2024-05-02">>

DateSet == {Dates[i] : i \in 1..Len(Dates)}

\* \d{4}-\d{2}-\d{2}
IsDate(s) == s \in DateSet

\* date_str[:4]
YearOf(d) == IF d = "2023-07-01" THEN "2023" ELSE "2024"

\* character codes of the tokens that occur in names (ord(c) of each c)
Chars(s) ==
  CASE s = "2023-07-01" -> <<50, 48, 50, 51, 45, 48, 55, 45, 48, 49>>
    [] s = "2024-03-01" -> <<50, 48, 50, 52, 45, 48, 51, 45, 48, 49>>
    [] s = "2024-05-01" -> <<50, 48, 50, 52, 45, 48, 53, 45, 48, 49>>
    [] s = "2024-05-02" -> <<50, 48, 50, 52, 45, 48, 53, 45, 48, 50>>
    [] s = "2023"       -> <<50, 48, 50, 51>>
    [] s = "2024"       -> <<50, 48, 50, 52>>
    [] s = "trip"       -> <<116, 114, 105, 112>>
    [] s = "other"      -> <<111, 116, 104, 101, 114>>
    [] s = "a"          -> <<97>>
    [] s = "b"          -> <<98>>
    [] s = "a_b"        -> <<97, 95, 98>>
    [] s = "dup1"       -> <<100, 117, 112, 49>>
    [] s = "dup2"       -> <<100, 117, 112, 50>>
    [] s = "jpg"        -> <<106, 112, 103>>
    [] s = "JPG"        -> <<74, 80, 71>>
    [] s = "txt"        -> <<116, 120, 116>>
    [] s = "03"         -> <<48, 51>>
    [] OTHER            -> LET n == ParseInt(s)
                           IN  IF n < 10 THEN <<48 + n>>
                               ELSE <<48 + (n \div 10), 48 + (n % 10)>>

RECURSIVE JoinStem(_)
\* "_".join(tokens), as character codes
JoinStem(st) == IF Len(st) = 0 THEN <<>>
                ELSE IF Len(st) = 1 THEN Chars(st[1])
                ELSE Chars(st[1]) \o <<95>> \o JoinStem(Tail(st))

\* Path.name as character codes: stem + "." + ext
NameChars(n) == JoinStem(n.stem) \o <<46>> \o Chars(n.ext)

RECURSIVE SeqLess(_, _)
\* Python's < on strings (lexicographic on code points)
SeqLess(s, t) ==
  IF Len(t) = 0 THEN FALSE
  ELSE IF Len(s) = 0 THEN TRUE
  ELSE IF s[1] /= t[1] THEN s[1] < t[1]
  ELSE SeqLess(Tail(s), Tail(t))

NameOf(f) == [stem |-> f.stem, ext |-> f.ext]

\* the names of the files of a directory listing
Names(files) == {NameOf(f) : f \in files}

RECURSIVE SortByKey(_, _)
\* sorted(S, key=...): key[x] is the key of x as character codes, the keys
\* are pairwise distinct
SortByKey(S, key) ==
  IF S = {} THEN <<>>
  ELSE LET m == CHOOSE x \in S : \A y \in S \ {x} : SeqLess(key[x], key[y])
       IN  <<m>> \o SortByKey(S \ {m}, key)

RECURSIVE InsertByKey(_, _, _)
\* x put into the sorted sequence s behind every element whose key is not
\* above its own
InsertByKey(x, s, key) ==
  IF s = <<>> THEN <<x>>
  ELSE IF SeqLess(key[x], key[s[1]]) THEN <<x>> \o s
  ELSE <<s[1]>> \o InsertByKey(x, Tail(s), key)

RECURSIVE SortedInto(_, _, _)
SortedInto(seq, acc, key) ==
  IF seq = <<>> THEN acc
  ELSE SortedInto(Tail(seq), InsertByKey(seq[1], acc, key), key)

\* sorted() and list.sort() without the sort: the list as it was
SortedAsListed(seq, key) == seq

\* sorted(seq, key=...) and seq.sort(key=...): the stable sort of a list
Sorted(seq, key) == SortedInto(seq, <<>>, key)

\* the elements of a list
Elems(seq) == {seq[i] : i \in 1..Len(seq)}

\* the orders in which iterdir() may list the files of a directory
Listings(files) ==
  {l \in [1..Cardinality(files) -> files] :
     \A i, j \in 1..Cardinality(files) : i /= j => l[i] /= l[j]}

\* the key of sorted(INBOX_DIR.iterdir()): the path
NameKey(files) == [f \in files |-> NameChars(NameOf(f))]

\* key=lambda x: (x[1], x[0].name): (date, name); the dates have one length,
\* so the pair compares as the concatenation
DateNameKey(files) == [f \in files |-> Chars(f.date) \o NameChars(NameOf(f))]

\* sorted(dir.iterdir()): by path
SortByName(files) == SortByKey(files, NameKey(files))

\* the files of a set in the order of (date, name)
SortByDateName(files) == SortByKey(files, DateNameKey(files))

\* str.lower() of a suffix
Lower(e) == IF e = "JPG" THEN "jpg" ELSE e

\* event.split("_"): the tokens the slug contributes to a stem
SlugTokens(event) == IF event = "a_b" THEN <<"a", "b">> ELSE <<event>>

(***************************************************************************)
(* rename_with_index.py: pure functions.                                   *)
(***************************************************************************)
\* STEM_RX: ^(\d{4}-\d{2}-\d{2})_([^_]+)_(\d+)(?:_.+)?$
STEM_RX(st) == /\ Len(st) >= 3
               /\ IsDate(st[1])
               /\ IsDigits(st[3])

parse_stem(st) ==
  IF STEM_RX(st)
  THEN [ok |-> TRUE, date |-> st[1], event |-> st[2], inc |-> ParseInt(st[3])]
  ELSE [ok |-> FALSE, date |-> "", event |-> "", inc |-> 0]

EmptyIdx == [k \in {} |-> 0]

\* idx = {k: v}: the dictionary replaced instead of updated
PutAlone(idx, k, v) == [x \in {k} |-> v]

\* idx[k] = v
Put(idx, k, v) == [x \in (DOMAIN idx) \cup {k} |-> IF x = k THEN v ELSE idx[x]]

RECURSIVE ReadRows(_, _)
ReadRows(rows, idx) ==
  IF Len(rows) = 0 THEN idx
  ELSE LET row == rows[1]
       IN  IF Len(row) < 3 \/ ~IsDigits(row[3])
           THEN ReadRows(Tail(rows), idx)
           ELSE ReadRows(Tail(rows), Put(idx, <<row[1], row[2]>>, ParseInt(row[3])))

\* read_index with "return idx" inside the loop: it stops after the first row
read_index_first_row(file) ==
  IF ~file.exists \/ Len(file.rows) = 0 THEN EmptyIdx
  ELSE ReadRows(<<file.rows[1]>>, EmptyIdx)

\* read_index(path); a file is [exists, rows]
read_index(file) == IF ~file.exists THEN EmptyIdx ELSE ReadRows(file.rows, EmptyIdx)

\* the rows write_index_atomic writes: sorted(idx.items()), one row each;
\* the pair (event, year) compares as event, then a separator below every
\* character, then year
IndexRows(idx, now) ==
  LET keys == SortByKey(DOMAIN idx,
                        [k \in DOMAIN idx |-> Chars(k[1]) \o <<0>> \o Chars(k[2])])
  IN  [i \in 1..Len(keys) |-> <<keys[i][1], keys[i][2], DecStr(idx[keys[i]]), now>>]

ScanRoots == {"compresse", "brute", "video", "audio", "library"}

SetMax(S) == IF S = {} THEN 0 ELSE CHOOSE m \in S : \A x \in S : x <= m

\* scan_max_existing without the test of the year
scan_max_any_year(event, year, tree) ==
  SetMax({parse_stem(p.stem).inc :
            p \in {q \in tree : /\ q.root \in ScanRoots
                                /\ q.dir = event
                                /\ parse_stem(q.stem).ok
                                /\ parse_stem(q.stem).event = event}})

\* scan_max_existing(event, year) over the destination trees
scan_max_existing(event, year, tree) ==
  SetMax({parse_stem(p.stem).inc :
            p \in {q \in tree : /\ q.root \in ScanRoots
                                /\ q.dir = event
                                /\ parse_stem(q.stem).ok
                                /\ parse_stem(q.stem).event = event
                                /\ YearOf(parse_stem(q.stem).date) = year}})

Max(a, b) == IF a >= b THEN a ELSE b

\* f"{date_str}_{event}_{i}{ext}"
TargetName(date_str, event, i, ext) ==
  [stem |-> <<date_str>> \o SlugTokens(event) \o <<DecStr(i)>>, ext |-> ext]

RECURSIVE ProbeFrom(_, _, _, _, _)
ProbeFrom(names, date_str, event, i, ext) ==
  IF TargetName(date_str, event, i, ext) \notin names THEN i
  ELSE ProbeFrom(names, date_str, event, i + 1, ext)

\* next_free_name without its loop: the first candidate, free or not
next_free_name_no_probe(names, date_str, event, start_inc, ext) == Max(1, start_inc)

\* next_free_name with "i = max(1, start_inc) + 1": the probe starts one late
next_free_name_late(names, date_str, event, start_inc, ext) ==
  ProbeFrom(names, date_str, event, Max(1, start_inc) + 1, ext)

\* next_free_name(dir_, date_str, event, start_inc, ext): the increment returned
next_free_name(names, date_str, event, start_inc, ext) ==
  ProbeFrom(names, date_str, event, Max(1, start_inc), ext)

\* event_slug = clean(event_in.replace(" ", "-").lower())
Slug(event_in) ==
  CASE event_in = "Trip"  -> "trip"
    [] event_in = "trip"  -> "trip"
    [] event_in = "Other" -> "other"
    [] event_in = "a:b"   -> "a_b"
    [] OTHER              -> event_in

(***************************************************************************)
(* move to process.py / move to library.py: pure functions.                *)
(***************************************************************************)
IMG_COMP_EXT == {"jpg", "jpeg", "png", "gif", "webp", "heic", "tif", "tiff", "bmp"}
RAW_EXT      == {"cr2", "cr3", "nef", "arw", "dng", "raf", "orf", "rw2", "srw", "pef"}
VIDEO_EXT    == {"mp4", "mov", "m4v", "avi", "mkv", "webm", "wmv"}
AUDIO_EXT    == {"mp3", "wav", "aac", "flac", "m4a", "ogg", "wma", "aiff"}

\* parse_event(stem): the event group of STEM_RX, "" for None
parse_event(st) == IF STEM_RX(st) THEN st[2] ELSE ""

\* target_dir(classify(ext), event): the root the file goes to, "other" when
\* the extension is of no known medium
classify(ext) ==
  LET e == Lower(ext)
  IN  CASE e \in IMG_COMP_EXT -> "compresse"
        [] e \in RAW_EXT      -> "brute"
        [] e \in VIDEO_EXT    -> "video"
        [] e \in AUDIO_EXT    -> "audio"
        [] OTHER              -> "other"

RECURSIVE DupFrom(_, _, _)
DupFrom(base, names, i) ==
  LET cand == [stem |-> Append(base.stem, "dup" \o DecStr(i)), ext |-> base.ext]
  IN  IF cand \notin names THEN cand ELSE DupFrom(base, names, i + 1)

\* unique_path(base), names the names present in base's directory
unique_path(base, names) == IF base \notin names THEN base ELSE DupFrom(base, names, 1)

\* the names inside <root>/<dir>
DirNames(tree, root, dir) ==
  {NameOf(q) : q \in {r \in tree : r.root = root /\ r.dir = dir}}

(***************************************************************************)
(* State.                                                                  *)
(***************************************************************************)
VARIABLES
  inboxDir,   \* INBOX_DIR exists
  inbox,      \* files of INBOX_DIR: [stem, ext, date, id]; date is what
              \* extract_capture_date returns for the file, id the name it
              \* arrived with (its identity through the renames)
  tree,       \* files of the trees under TO_PROCESS_DIR and LIBRARY_DIR:
              \* [root, dir, stem, ext], the file <root>/<dir>/<stem>.<ext>
  stateDir,   \* STATE_DIR exists
  stateFiles, \* STATE_CSV and its .tmp sibling: [exists, rows]
  arrived,    \* the names under which a file arrived so far
  runs,       \* finished runs of rename_with_index
  pc,         \* position of the running rename_with_index, "idle" when none
  dry,        \* hasflag("--dry-run")
  event_slug, \* main: event_slug
  idx,        \* main: the in-memory index
  groups,     \* main: the year groups not begun, sorted by year
  year,       \* main: the year of the current group
  lst,        \* main: the files of the current group not yet handled
  next_inc,   \* main: next_inc
  status,     \* the exit status of the run that ended, -1 before it ends
  issued,     \* history: the increments live runs assigned, in order
  assigned,   \* history: the increments this run assigned, in order
  commits,    \* history: os.replace calls of this run
  atStart,    \* history: the filesystem when this run started
  plan,       \* history: what the last completed dry run found and printed
  clobbered   \* history: a rename or move went onto an existing path

vars == <<inboxDir, inbox, tree, stateDir, stateFiles, arrived, runs, pc, dry,
          event_slug, idx, groups, year, lst, next_inc, status, issued, assigned,
          commits, atStart, plan, clobbered>>

fsVars  == <<inboxDir, inbox, tree, stateDir, stateFiles>>
runVars == <<dry, event_slug, idx, groups, year, lst, next_inc, status>>

STATE_CSV == "increment_index.csv"

\* write_index_atomic writing in place: tmp is the path itself
TmpPathInPlace(path) == path

\* path.with_suffix(".tmp")
TmpPath(path) == "increment_index.tmp"

Absent == [exists |-> FALSE, rows |-> <<>>]

NoSnapshot == [inbox |-> {}, tree |-> {}, dir |-> FALSE,
               files |-> [n \in {STATE_CSV, TmpPath(STATE_CSV)} |-> Absent]]

\* no dry run has completed yet
NoPlan == [start |-> NoSnapshot, event |-> "", notes |-> <<>>]

\* a file already in a destination root, and an index that knows it
Landed == [stem |-> <<"2024-03-01", "trip", "3">>, ext |-> "jpg"]

OnDisk(root) == [root |-> root, dir |-> "trip", stem |-> Landed.stem, ext |-> Landed.ext]

Known == [exists |-> TRUE,
          rows   |-> IndexRows((<<"other", "2024">> :> 7) @@ (<<"trip", "2024">> :> 3), "0")]

\* the trees and the index file the first run may find
InitStates ==
  { [tree |-> {},                                          index |-> Absent],
    [tree |-> {OnDisk("compresse")},                       index |-> Absent],
    [tree |-> {OnDisk("compresse")},                       index |-> Known],
    [tree |-> {OnDisk("library"), OnDisk("compressed")},   index |-> Known] }

\* the names files arrive with: a camera name, a name of no known medium,
\* and a name that already has the canonical form
ArrivalNames ==
  { [stem |-> <<"a">>, ext |-> "JPG"],
    [stem |-> <<"b">>, ext |-> "txt"],
    [stem |-> <<"2024-05-01", "trip", "1">>, ext |-> "jpg"] }

ArrivalDates == {"2023-07-01", "2024-05-01", "2024-05-02"}

\* --event: a name, or the flag missing
EventArgs == {"Trip", ""}

Init ==
  /\ inboxDir \in BOOLEAN
  /\ inbox = {}
  /\ \E s \in InitStates :
       /\ tree = s.tree
       /\ stateDir = s.index.exists
       /\ stateFiles = [n \in {STATE_CSV, TmpPath(STATE_CSV)} |->
                          IF n = STATE_CSV THEN s.index ELSE Absent]
  /\ arrived = {}
  /\ runs = 0
  /\ pc = "idle"
  /\ dry = FALSE
  /\ event_slug = ""
  /\ idx = EmptyIdx
  /\ groups = <<>>
  /\ year = ""
  /\ lst = <<>>
  /\ next_inc = 0
  /\ status = -1
  /\ issued = <<>>
  /\ assigned = <<>>
  /\ commits = 0
  /\ atStart = NoSnapshot
  /\ plan = NoPlan
  /\ clobbered = FALSE

(***************************************************************************)
(* The capture device: a file arrives in the inbox.                        *)
(***************************************************************************)
\* no renamer is running, and one more run is to come
Between == pc = "idle" /\ runs < MaxRuns

Arrive ==
  /\ Between
  /\ inboxDir
  /\ Cardinality(arrived) < MaxFiles
  /\ \E n \in ArrivalNames \ arrived, d \in ArrivalDates :
       /\ n \notin Names(inbox)
       /\ inbox' = inbox \cup {[stem |-> n.stem, ext |-> n.ext, date |-> d, id |-> n]}
       /\ arrived' = arrived \cup {n}
  /\ UNCHANGED <<inboxDir, tree, stateDir, stateFiles, runs, pc, runVars,
                 issued, assigned, commits, atStart, clobbered, plan>>

(***************************************************************************)
(* rename_with_index.py: main.                                             *)
(***************************************************************************)
\* groups[year].append((p, date_str)) for the files in the order of the
\* list, then sorted(groups.items()): the year groups by year
YearGroups(files) ==
  LET years == {YearOf(files[i].date) : i \in 1..Len(files)}
      order == SortByKey(years, [y \in years |-> Chars(y)])
      InYear(y) == SelectSeq(files, LAMBDA f : YearOf(f.date) = y)
  IN  [i \in 1..Len(order) |-> [year |-> order[i], files |-> InYear(order[i])]]

\* main with the scan consulted whether or not the index has the entry
LastIncScanOnly(index, event, yr, trees) == scan_max_existing(event, yr, trees)

\* last_inc = idx.get((event_slug, year)); if None: scan_max_existing(...)
LastInc(index, event, yr, trees) ==
  IF <<event, yr>> \in DOMAIN index THEN index[<<event, yr>>]
  ELSE scan_max_existing(event, yr, trees)

\* main with "next_inc = inc": the increment is not advanced
NextAfterStuck(inc, renamed, before) == inc

\* main with "next_inc = inc + 1" inside the try, after p.rename
NextAfterOnSuccess(inc, renamed, before) == IF renamed THEN inc + 1 ELSE before

\* next_inc = inc + 1, whether or not the rename succeeded (renamed) and
\* whatever next_inc was (before)
NextAfter(inc, renamed, before) == inc + 1

\* main with "idx[(event_slug, year)] = next_inc"
EntryAfterNext(next) == next

\* idx[(event_slug, year)] = next_inc - 1
EntryAfter(next) == next - 1

\* main without the "if not dry" before write_index_atomic
AfterGroupNoDryCheck(left, isDry) == IF left /= <<>> THEN "group" ELSE "write"

\* main with write_index_atomic inside the loop over the year groups
AfterGroupCommitEarly(left, isDry) ==
  IF ~isDry THEN "write" ELSE IF left /= <<>> THEN "group" ELSE "done"

\* where main goes after a year group: the next group, or past the loop the
\* "if not dry: write_index_atomic(...)"
AfterGroup(left, isDry) ==
  IF left /= <<>> THEN "group" ELSE IF isDry THEN "done" ELSE "write"

\* sys.exit(2) without --event or without the inbox directory; the return
\* of main and every other end of the interpreter without an exception
\* give 0, an uncaught exception gives 1
EXIT_USAGE == 2
EXIT_OK    == 0
EXIT_ERROR == 1

\* main up to the loop over the year groups: argument handling, collection
\* of the files, grouping, STATE_DIR.mkdir, read_index
Start ==
  /\ pc = "idle"
  /\ runs < MaxRuns
  /\ atStart' = [inbox |-> inbox, tree |-> tree, dir |-> stateDir,
                 files |-> stateFiles]
  /\ assigned' = <<>>
  /\ commits' = 0
  /\ \E d \in BOOLEAN, event_in \in EventArgs, listing \in Listings(inbox) :
       LET files == Sorted(listing, NameKey(inbox))
       IN  IF event_in = ""
           THEN /\ pc' = "refused"
                /\ status' = EXIT_USAGE
                /\ UNCHANGED <<dry, event_slug, stateDir, idx, groups>>
           ELSE /\ dry' = d
                /\ event_slug' = Slug(event_in)
                /\ IF ~inboxDir
                   THEN /\ pc' = "refused"
                        /\ status' = EXIT_USAGE
                        /\ UNCHANGED <<stateDir, idx, groups>>
                   ELSE IF files = <<>>
                   THEN /\ pc' = "done"
                        /\ status' = EXIT_OK
                        /\ UNCHANGED <<stateDir, idx, groups>>
                   ELSE /\ pc' = "group"
                        /\ status' = -1
                        /\ stateDir' = TRUE
                        /\ idx' = read_index(stateFiles[STATE_CSV])
                        /\ groups' = YearGroups(files)
  /\ UNCHANGED <<inboxDir, inbox, tree, stateFiles, arrived, runs, year, lst,
                 next_inc, issued, clobbered, plan>>

\* the head of one iteration of "for year, lst in sorted(groups.items())"
BeginGroup ==
  /\ pc = "group"
  /\ year' = groups[1].year
  /\ next_inc' = LastInc(idx, event_slug, groups[1].year, tree) + 1
  /\ lst' = Sorted(groups[1].files, DateNameKey(Elems(groups[1].files)))
  /\ groups' = Tail(groups)
  /\ pc' = "file"
  /\ UNCHANGED <<fsVars, arrived, runs, dry, event_slug, idx, issued,
                 assigned, commits, atStart, clobbered, plan, status>>

\* one iteration of "for p, date_str in lst"; ok: p.rename succeeds
RenameFile(ok) ==
  /\ pc = "file"
  /\ lst /= <<>>
  /\ LET p      == lst[1]
         ext    == Lower(p.ext)
         inc    == next_free_name(Names(inbox), p.date, event_slug, next_inc, ext)
         target == TargetName(p.date, event_slug, inc, ext)
         done   == ~dry /\ ok /\ p \in inbox
         note   == [ev |-> event_slug, year |-> year, first |-> Max(1, next_inc),
                    inc |-> inc, id |-> p.id, ok |-> done]
     IN  /\ next_inc' = NextAfter(inc, done, next_inc)
         /\ assigned' = Append(assigned, note)
         /\ issued' = IF dry THEN issued ELSE Append(issued, note)
         /\ IF done
            THEN /\ inbox' = {f \in inbox : f /= p /\ NameOf(f) /= target}
                               \cup {[p EXCEPT !.stem = target.stem, !.ext = target.ext]}
                 /\ clobbered' = (clobbered \/ target \in Names(inbox))
            ELSE UNCHANGED <<inbox, clobbered>>
  /\ lst' = Tail(lst)
  /\ UNCHANGED <<inboxDir, tree, stateDir, stateFiles, arrived, runs, pc,
                 dry, event_slug, idx, groups, year, commits, atStart, plan,
                 status>>

\* the end of a year group: idx[(event_slug, year)] = next_inc - 1
EndGroup ==
  /\ pc = "file"
  /\ lst = <<>>
  /\ idx' = Put(idx, <<event_slug, year>>, EntryAfter(next_inc))
  /\ pc' = AfterGroup(groups, dry)
  /\ status' = IF AfterGroup(groups, dry) = "done" THEN EXIT_OK ELSE status
  /\ UNCHANGED <<fsVars, arrived, runs, dry, event_slug, groups, year, lst,
                 next_inc, issued, assigned, commits, atStart, clobbered,
                 plan>>

(***************************************************************************)
(* write_index_atomic(STATE_CSV, idx), step by step.                       *)
(***************************************************************************)
\* datetime.now(): the clock ticks once per run
Now == DecStr(runs)

\* path.parent.mkdir; tmp.open("w")
OpenTmp ==
  /\ pc = "write"
  /\ stateDir' = TRUE
  /\ stateFiles' = [stateFiles EXCEPT ![TmpPath(STATE_CSV)] =
                                         [exists |-> TRUE, rows |-> <<>>]]
  /\ pc' = "rows"
  /\ UNCHANGED <<inboxDir, inbox, tree, arrived, runs, runVars, issued,
                 assigned, commits, atStart, clobbered, plan>>

\* w.writerow of the next item
WriteRow ==
  /\ pc = "rows"
  /\ LET rows == IndexRows(idx, Now)
         k    == Len(stateFiles[TmpPath(STATE_CSV)].rows)
     IN  /\ k < Len(rows)
         /\ stateFiles' = [stateFiles EXCEPT ![TmpPath(STATE_CSV)].rows =
                                                Append(@, rows[k + 1])]
  /\ UNCHANGED <<inboxDir, inbox, tree, stateDir, arrived, runs, pc, runVars,
                 issued, assigned, commits, atStart, clobbered, plan>>

\* os.replace(tmp, path), after the last row
Replace ==
  /\ pc = "rows"
  /\ Len(stateFiles[TmpPath(STATE_CSV)].rows) = Len(IndexRows(idx, Now))
  /\ stateFiles' = IF TmpPath(STATE_CSV) = STATE_CSV THEN stateFiles
                   ELSE [stateFiles EXCEPT
                           ![STATE_CSV] = stateFiles[TmpPath(STATE_CSV)],
                           ![TmpPath(STATE_CSV)] = Absent]
  /\ commits' = commits + 1
  /\ pc' = "done"
  /\ status' = EXIT_OK
  /\ UNCHANGED <<inboxDir, inbox, tree, stateDir, arrived, runs, dry,
                 event_slug, idx, groups, year, lst, next_inc, issued,
                 assigned, atStart, clobbered, plan>>

\* an OSError of mkdir, open, write or os.replace ends the run
WriteFails ==
  /\ pc \in {"write", "rows"}
  /\ pc' = "failed"
  /\ status' = EXIT_ERROR
  /\ UNCHANGED <<fsVars, arrived, runs, dry, event_slug, idx, groups, year,
                 lst, next_inc, issued, assigned, commits, atStart, clobbered,
                 plan>>

\* the process exits
Exit ==
  /\ pc \in {"done", "failed", "refused"}
  /\ plan' = IF pc = "done" /\ dry /\ atStart.inbox /= {}
             THEN [start |-> atStart, event |-> event_slug, notes |-> assigned]
             ELSE plan
  /\ status' = -1
  /\ pc' = "idle"
  /\ runs' = runs + 1
  /\ dry' = FALSE
  /\ event_slug' = ""
  /\ idx' = EmptyIdx
  /\ groups' = <<>>
  /\ year' = ""
  /\ lst' = <<>>
  /\ next_inc' = 0
  /\ assigned' = <<>>
  /\ commits' = 0
  /\ atStart' = NoSnapshot
  /\ UNCHANGED <<fsVars, arrived, issued, clobbered>>

(***************************************************************************)
(* move to process.py: main, and move to library.py: mirror_event.         *)
(* A run is one step: the scripts run while no renamer is running.         *)
(***************************************************************************)
\* the effect of shutil.move(p, <root>/<dir>/<dest>) on [inbox, tree, hit]
MoveInto(st, p, root, dir, dest) ==
  [inbox |-> st.inbox \ {p},
   tree  |-> {q \in st.tree : ~(q.root = root /\ q.dir = dir /\ NameOf(q) = dest)}
               \cup {[root |-> root, dir |-> dir, stem |-> dest.stem, ext |-> dest.ext]},
   hit   |-> (st.hit \/ dest \in DirNames(st.tree, root, dir))]

RECURSIVE ProcessAll(_, _, _)
\* the loop of main over sorted(INBOX_DIR.iterdir()); fails: the files whose
\* shutil.move raises
ProcessAll(todo, st, fails) ==
  IF todo = <<>> THEN st
  ELSE LET p    == todo[1]
           ev   == parse_event(p.stem)
           root == classify(p.ext)
           dest == unique_path(NameOf(p), DirNames(st.tree, root, ev))
       IN  IF ev = "" \/ root = "other" \/ p \in fails
           THEN ProcessAll(Tail(todo), st, fails)
           ELSE ProcessAll(Tail(todo), MoveInto(st, p, root, ev, dest), fails)

MoveToProcess ==
  /\ Between
  /\ \E fails \in SUBSET {f \in inbox : parse_event(f.stem) /= "" /\ classify(f.ext) /= "other"} :
       LET st == ProcessAll(SortByName(inbox),
                            [inbox |-> inbox, tree |-> tree, hit |-> FALSE], fails)
       IN  /\ st.inbox /= inbox
           /\ inbox' = st.inbox
           /\ tree' = st.tree
           /\ clobbered' = (clobbered \/ st.hit)
  /\ UNCHANGED <<inboxDir, stateDir, stateFiles, arrived, runs, pc, runVars,
                 issued, assigned, commits, atStart, plan>>

\* the effect of shutil.move(p, LIBRARY_DIR/<event>/<dest>) on [tree, hit]
MirrorInto(st, p, dest) ==
  [tree |-> {q \in st.tree : q /= p /\ ~(q.root = "library" /\ q.dir = p.dir
                                          /\ NameOf(q) = dest)}
              \cup {[root |-> "library", dir |-> p.dir, stem |-> dest.stem,
                     ext |-> dest.ext]},
   hit  |-> (st.hit \/ dest \in DirNames(st.tree, "library", p.dir))]

RECURSIVE MirrorAll(_, _, _)
\* the loop of mirror_event over sorted(src.iterdir())
MirrorAll(todo, st, fails) ==
  IF todo = <<>> THEN st
  ELSE LET p    == todo[1]
           dest == unique_path(NameOf(p), DirNames(st.tree, "library", p.dir))
       IN  IF p \in fails THEN MirrorAll(Tail(todo), st, fails)
           ELSE MirrorAll(Tail(todo), MirrorInto(st, p, dest), fails)

\* mirror_event(event): src = /to process/images/compressed/<event>
MoveToLibrary ==
  /\ Between
  /\ \E event \in {"trip"} :
       LET src == {q \in tree : q.root = "compressed" /\ q.dir = event}
       IN  /\ src /= {}
           /\ \E fails \in SUBSET src :
                LET st == MirrorAll(SortByName(src), [tree |-> tree, hit |-> FALSE], fails)
                IN  /\ st.tree /= tree
                    /\ tree' = st.tree
                    /\ clobbered' = (clobbered \/ st.hit)
  /\ UNCHANGED <<inboxDir, inbox, stateDir, stateFiles, arrived, runs, pc,
                 runVars, issued, assigned, commits, atStart, plan>>

\* the user (or a cleanup) deletes the index file between two runs
DeleteIndex ==
  /\ Between
  /\ stateFiles[STATE_CSV].exists
  /\ stateFiles' = [stateFiles EXCEPT ![STATE_CSV] = Absent]
  /\ UNCHANGED <<inboxDir, inbox, tree, stateDir, arrived, runs, pc, runVars,
                 issued, assigned, commits, atStart, clobbered, plan>>

Next ==
  \/ Arrive
  \/ Start
  \/ BeginGroup
  \/ \E ok \in BOOLEAN : RenameFile(ok)
  \/ EndGroup
  \/ OpenTmp
  \/ WriteRow
  \/ Replace
  \/ WriteFails
  \/ Exit
  \/ MoveToProcess
  \/ MoveToLibrary
  \/ DeleteIndex

Spec == Init /\ [][Next]_vars

(***************************************************************************)
(* One run of rename_with_index from every inbox of up to MaxFiles files,  *)
(* with the moves that may come before it.                                 *)
(***************************************************************************)
\* the names the inbox may hold when the run starts: those files arrive
\* with, and names earlier runs left behind
InboxNames ==
  ArrivalNames \cup { [stem |-> <<"2024-05-01", "trip", "2">>, ext |-> "jpg"],
                      [stem |-> Landed.stem, ext |-> Landed.ext] }

Inboxes ==
  { files \in SUBSET {[stem |-> n.stem, ext |-> n.ext, date |-> d, id |-> n] :
                        n \in InboxNames, d \in ArrivalDates} :
      /\ Cardinality(files) <= MaxFiles
      /\ Cardinality(Names(files)) = Cardinality(files) }

\* the destination trees and index files the run may find: those of
\* InitStates, and an index ahead of the trees (the renamed files of an
\* earlier run never left the inbox, which scan_max_existing does not read)
OneRunStates ==
  InitStates \cup { [tree |-> {}, index |-> Known] }

\* the state before the last-but-r run of rename_with_index
RunsAhead(r) ==
  /\ inboxDir \in BOOLEAN
  /\ inbox \in Inboxes
  /\ ~inboxDir => inbox = {}
  /\ arrived = Names(inbox)
  /\ \E s \in OneRunStates :
       /\ tree = s.tree
       /\ stateDir = s.index.exists
       /\ stateFiles = [n \in {STATE_CSV, TmpPath(STATE_CSV)} |->
                          IF n = STATE_CSV THEN s.index ELSE Absent]
  /\ runs = MaxRuns - r
  /\ pc = "idle"
  /\ dry = FALSE
  /\ event_slug = ""
  /\ idx = EmptyIdx
  /\ groups = <<>>
  /\ year = ""
  /\ lst = <<>>
  /\ next_inc = 0
  /\ status = -1
  /\ issued = <<>>
  /\ assigned = <<>>
  /\ commits = 0
  /\ atStart = NoSnapshot
  /\ plan = NoPlan
  /\ clobbered = FALSE

InitOneRun == RunsAhead(1)

NextOneRun ==
  \/ Start
  \/ BeginGroup
  \/ \E ok \in BOOLEAN : RenameFile(ok)
  \/ EndGroup
  \/ OpenTmp
  \/ WriteRow
  \/ Replace
  \/ WriteFails
  \/ Exit
  \/ MoveToProcess
  \/ MoveToLibrary

SpecOneRun == InitOneRun /\ [][NextOneRun]_vars

(***************************************************************************)
(* Two runs of rename_with_index in a row on one inbox, nothing else       *)
(* touching the files in between.                                          *)
(***************************************************************************)
InitTwoRuns == RunsAhead(2)

NextTwoRuns ==
  \/ Start
  \/ BeginGroup
  \/ \E ok \in BOOLEAN : RenameFile(ok)
  \/ EndGroup
  \/ OpenTmp
  \/ WriteRow
  \/ Replace
  \/ WriteFails
  \/ Exit

SpecTwoRuns == InitTwoRuns /\ [][NextTwoRuns]_vars

(***************************************************************************)
(* Properties.                                                             *)
(***************************************************************************)
\* the index as a reader sees it now, and as this run found it
Durable == read_index(stateFiles[STATE_CSV])
Loaded  == read_index(atStart.files[STATE_CSV])

SameKey(a, b) == a.ev = b.ev /\ a.year = b.year

\* the highest increment of the notes of log for the key of note a
Highest(log, a) ==
  SetMax({log[i].inc : i \in {k \in 1..Len(log) : SameKey(log[k], a)}})

\* C1: over any sequence of runs, an increment a live run assigned to a file
\* for a key (event, year) is never assigned later for that key to another
\* file, and the values assigned for a key never regress.
C1_NeverIssuedTwice ==
  \A i, j \in 1..Len(issued) :
    (i < j /\ SameKey(issued[i], issued[j])) =>
      /\ issued[j].inc >= issued[i].inc
      /\ issued[j].inc = issued[i].inc => issued[j].id = issued[i].id

\* C2: within one run the increments assigned for a key are strictly
\* increasing in assignment order (so none is assigned twice).
C2_StrictlyIncreasing ==
  \A i, j \in 1..Len(assigned) :
    (i < j /\ SameKey(assigned[i], assigned[j])) => assigned[i].inc < assigned[j].inc

\* C2 witness: a run gave two files of one key their increments, and the
\* probe skipped a value for the second
C2_Witness ==
  \E i, j \in 1..Len(assigned) :
    /\ i < j
    /\ SameKey(assigned[i], assigned[j])
    /\ assigned[j].inc > assigned[j].first

\* a year group was begun and none of its files has its increment yet
GroupFresh ==
  /\ pc = "file"
  /\ \A i \in 1..Len(assigned) : assigned[i].year /= year

\* the files of the scanned roots that carry the key (event, yr)
Carrying(event, yr) ==
  {q \in tree : /\ q.root \in {"compresse", "brute", "video", "audio", "library"}
                /\ q.dir = event
                /\ Len(q.stem) >= 3
                /\ q.stem[2] = event
                /\ IsDate(q.stem[1]) /\ YearOf(q.stem[1]) = yr
                /\ IsDigits(q.stem[3])}

\* C3: without an index entry for (event, year) the allocation starts at
\* scan_max_existing(event, year) + 1, which is 1 when no file of the scanned
\* roots matches and 4 when 2024-03-01_trip_3.jpg is the file found; with an
\* entry the allocation starts at entry + 1, whatever the scan would find.
C3_StartingPoint ==
  GroupFresh =>
    LET key == <<event_slug, year>>
    IN  IF key \in DOMAIN Loaded
        THEN next_inc = Loaded[key] + 1
        ELSE /\ next_inc = scan_max_existing(event_slug, year, tree) + 1
             /\ Carrying(event_slug, year) = {} => next_inc = 1
             /\ (\A q \in Carrying(event_slug, year) : NameOf(q) = Landed)
                  /\ Carrying(event_slug, year) /= {} => next_inc = 4

\* C3 witness: no entry for (trip, 2024), 2024-03-01_trip_3.jpg in a
\* destination root, and the group of 2024 begins
C3_Witness ==
  /\ GroupFresh
  /\ <<event_slug, year>> \notin DOMAIN Loaded
  /\ \E q \in Carrying(event_slug, year) : NameOf(q) = Landed
  /\ next_inc = 4

\* the notes of this run whose year group is complete
Batched == {i \in 1..Len(assigned) : pc /= "file" \/ assigned[i].year /= year}

\* C4: after a year group the entry of its key is the highest increment ever
\* issued for the key (the highest of the batch) and not below the entry the
\* run loaded; a commit never stores less than the file held for a key.
C4_EntryIsHighestIssued ==
  /\ \A i \in Batched :
       LET key == <<assigned[i].ev, assigned[i].year>>
       IN  /\ key \in DOMAIN idx
           /\ idx[key] = Highest(assigned, assigned[i])
           /\ ~dry => idx[key] = Highest(issued, assigned[i])
           /\ key \in DOMAIN Loaded => idx[key] >= Loaded[key]
  /\ commits = 1 =>
       \A key \in DOMAIN Loaded : key \in DOMAIN Durable /\ Durable[key] >= Loaded[key]

\* C5: a dry run never changes the index file, never calls
\* write_index_atomic, and never renames a file of the inbox.
C5_DryRunFrame ==
  (pc /= "idle" /\ dry) =>
    /\ stateFiles[STATE_CSV] = atStart.files[STATE_CSV]
    /\ pc \notin {"write", "rows", "failed"}
    /\ commits = 0
    /\ inbox = atStart.inbox

\* C5 witness: a dry run planned the names of two files and ended
C5_Witness == pc = "done" /\ dry /\ Len(assigned) = 2

\* C6: during and after write_index_atomic, also when it fails, the index
\* file is the complete previous file or the complete new one, and
\* read_index of it is the previous table or the new table.
C6_AtomicCommit ==
  pc \in {"write", "rows", "done", "failed"} =>
    /\ \/ stateFiles[STATE_CSV] = atStart.files[STATE_CSV]
       \/ stateFiles[STATE_CSV] = [exists |-> TRUE, rows |-> IndexRows(idx, Now)]
    /\ Durable \in {Loaded, idx}

\* C6 witness: the write failed with the temporary file partly written,
\* over an index file that held entries
C6_Witness ==
  /\ pc = "failed"
  /\ Loaded /= EmptyIdx
  /\ Len(stateFiles[TmpPath(STATE_CSV)].rows) \in 1..(Len(IndexRows(idx, Now)) - 1)

(***************************************************************************)
(* write_index_atomic followed by read_index, for every mapping over a     *)
(* few keys: the run starts at the commit with the mapping in memory.      *)
(***************************************************************************)
MaxVal == 11       \* largest increment of a mapping

RoundTripKeys == {<<"trip", "2023">>, <<"trip", "2024">>, <<"other", "2024">>}

Mappings == UNION {[K -> 0..MaxVal] : K \in SUBSET RoundTripKeys}

InitRoundTrip ==
  /\ inboxDir = TRUE
  /\ inbox = {}
  /\ tree = {}
  /\ \E f \in {Absent, Known} :
       /\ stateDir = f.exists
       /\ stateFiles = [n \in {STATE_CSV, TmpPath(STATE_CSV)} |->
                          IF n = STATE_CSV THEN f ELSE Absent]
       /\ atStart = [inbox |-> {}, tree |-> {}, dir |-> f.exists,
                     files |-> [n \in {STATE_CSV, TmpPath(STATE_CSV)} |->
                                  IF n = STATE_CSV THEN f ELSE Absent]]
  /\ arrived = {}
  /\ runs = 0
  /\ pc = "write"
  /\ dry = FALSE
  /\ event_slug = "trip"
  /\ idx \in Mappings
  /\ groups = <<>>
  /\ year = ""
  /\ lst = <<>>
  /\ next_inc = 0
  /\ status = -1
  /\ issued = <<>>
  /\ assigned = <<>>
  /\ commits = 0
  /\ plan = NoPlan
  /\ clobbered = FALSE

NextRoundTrip == OpenTmp \/ WriteRow \/ Replace \/ WriteFails

SpecRoundTrip == InitRoundTrip /\ [][NextRoundTrip]_vars

\* C7: write_index_atomic followed by read_index returns exactly the mapping
\* that was written: the same keys with the same values.
C7_RoundTrip == (pc = "done" /\ commits = 1) => Durable = idx

\* C7 witness: a mapping of three keys, with a 0 and a two-digit value, was
\* committed over an existing file
C7_Witness ==
  /\ pc = "done" /\ commits = 1
  /\ DOMAIN idx = RoundTripKeys
  /\ idx[<<"trip", "2023">>] = 0
  /\ idx[<<"trip", "2024">>] >= 10
  /\ atStart.files[STATE_CSV].exists

\* C8: no rename of a live run and no move of move-to-process or
\* move-to-library goes onto an existing path (the file's own path included):
\* the probe of next_free_name or unique_path chooses a free name, and no
\* file of the inbox disappears under a rename.
C8_NoOverwrite ==
  /\ ~clobbered
  /\ Cardinality(Names(inbox)) = Cardinality(inbox)
  /\ pc /= "idle" => Cardinality(inbox) = Cardinality(atStart.inbox)

\* C8 witness: a live rename whose first candidate name existed went to the
\* next free name, and a move whose destination existed went to a _dup name
C8_Witness ==
  /\ \E i \in 1..Len(assigned) : assigned[i].ok /\ assigned[i].inc > assigned[i].first
  /\ \E q \in tree : Len(q.stem) = 4 /\ q.stem[4] = "dup1"

\* C9 as stated: every run that completes normally has committed exactly once
\* when live and never when dry, after all year groups; a run that fails
\* leaves the index file untouched.
C9_CommitExactlyOnce ==
  /\ pc = "done" => commits = (IF dry THEN 0 ELSE 1)
  /\ commits = 1 => Len(assigned) = Cardinality(atStart.inbox)
  /\ pc = "failed" => stateFiles[STATE_CSV] = atStart.files[STATE_CSV]

\* C9 amended: a run that completes normally has committed exactly once when
\* it is live and found a file in the inbox, and never when it is a dry run
\* or found the inbox empty; the commit comes after every file of every year
\* group has its increment, the index file is untouched before it, and a run
\* that fails leaves it untouched.
C9_CommitOnceIfWork ==
  /\ pc = "done" => commits = (IF dry \/ atStart.inbox = {} THEN 0 ELSE 1)
  /\ commits <= 1
  /\ commits = 1 => /\ Len(assigned) = Cardinality(atStart.inbox)
                    /\ groups = <<>> /\ lst = <<>>
                    /\ \A f \in atStart.inbox : <<event_slug, YearOf(f.date)>> \in DOMAIN Durable
  /\ (pc /= "idle" /\ commits = 0) => stateFiles[STATE_CSV] = atStart.files[STATE_CSV]
  /\ pc = "failed" => stateFiles[STATE_CSV] = atStart.files[STATE_CSV]

\* C9 witness: a live run over two year groups committed once and ended
C9_Witness ==
  /\ pc = "done" /\ ~dry /\ commits = 1
  /\ \E i, j \in 1..Len(assigned) : assigned[i].year /= assigned[j].year

\* C10: when a rename fails in a live run the batch goes on, no later file
\* of the run gets the increment of the failed file, and the entry committed
\* at the end covers it.
C10_FailedIncrementKept ==
  \A i \in 1..Len(assigned) :
    (~dry /\ ~assigned[i].ok) =>
      /\ \A j \in 1..Len(assigned) :
           (i < j /\ SameKey(assigned[i], assigned[j])) => assigned[j].inc > assigned[i].inc
      /\ pc \in {"write", "rows", "done", "failed"} =>
           Len(assigned) = Cardinality(atStart.inbox)
      /\ (pc = "done" /\ commits = 1) =>
           /\ <<assigned[i].ev, assigned[i].year>> \in DOMAIN Durable
           /\ Durable[<<assigned[i].ev, assigned[i].year>>] >= assigned[i].inc

\* C10 witness: a live run committed after the rename of a file failed and
\* that of a later file of the same key succeeded
C10_Witness ==
  /\ pc = "done" /\ ~dry /\ commits = 1
  /\ \E i, j \in 1..Len(assigned) :
       i < j /\ SameKey(assigned[i], assigned[j]) /\ ~assigned[i].ok /\ assigned[j].ok

\* the file of a note as the run found it in the inbox
StartFile(a) == CHOOSE f \in atStart.inbox : f.id = a.id

\* (capture date, name at the start of the run) of the file of a note
OrderKey(a) == Chars(StartFile(a).date) \o NameChars(NameOf(StartFile(a)))

\* the entry a run starts from for the key of note a: the loaded entry, or
\* what the destination roots held at the start (0 with no matching file)
Prior(a) ==
  IF <<a.ev, a.year>> \in DOMAIN Loaded THEN Loaded[<<a.ev, a.year>>]
  ELSE SetMax({ParseInt(q.stem[3]) :
                 q \in {r \in atStart.tree : /\ r.root \in ScanRoots
                                            /\ r.dir = a.ev
                                            /\ Len(r.stem) >= 3
                                            /\ r.stem[2] = a.ev
                                            /\ IsDate(r.stem[1])
                                            /\ YearOf(r.stem[1]) = a.year
                                            /\ IsDigits(r.stem[3])}})

\* the positions up to i of the notes with the key of the i-th note
Mine(i) == {k \in 1..i : SameKey(assigned[k], assigned[i])}

\* no file of the key met an existing name, up to the i-th note
Unhindered(i) == \A k \in Mine(i) : assigned[k].inc = assigned[k].first

\* C11: with prior entry L for (event, year) and files whose candidate names
\* meet no file of the inbox, the files get L+1, ..., L+n in the order of
\* (capture date, name), and the entry committed for the key is L+n.
C11_ConsecutiveFromPrior ==
  /\ \A i \in 1..Len(assigned) :
       Unhindered(i) =>
         /\ assigned[i].inc = Prior(assigned[i]) + Cardinality(Mine(i))
         /\ \A k \in Mine(i) \ {i} : SeqLess(OrderKey(assigned[k]), OrderKey(assigned[i]))
  /\ (pc = "done" /\ commits = 1) =>
       \A i \in 1..Len(assigned) :
         (Unhindered(i) /\ \A k \in (i + 1)..Len(assigned) :
                             ~SameKey(assigned[k], assigned[i])) =>
           Durable[<<assigned[i].ev, assigned[i].year>>] =
             Prior(assigned[i]) + Cardinality(Mine(i))

\* C11 witness: no entry for (trip, 2024) and nothing in the destination
\* roots; files dated 2024-05-01 and 2024-05-02 got 1 and 2 in a live run,
\* and the committed entry is 2
C11_Witness ==
  /\ pc = "done" /\ ~dry /\ commits = 1
  /\ Loaded = EmptyIdx /\ atStart.tree = {}
  /\ Len(assigned) = 2
  /\ StartFile(assigned[1]).date = "2024-05-01" /\ assigned[1].inc = 1
  /\ StartFile(assigned[2]).date = "2024-05-02" /\ assigned[2].inc = 2
  /\ Durable[<<"trip", "2024">>] = 2

\* C12: after a live run whose renames all succeeded, the increments carried
\* by the files of a key are all the values from the starting point to the
\* committed entry, none missing, also when names of the inbox collided.
C12_NoVisibleGap ==
  (pc = "done" /\ ~dry /\ commits = 1 /\ \A i \in 1..Len(assigned) : assigned[i].ok) =>
    \A i \in 1..Len(assigned) :
      LET key == <<assigned[i].ev, assigned[i].year>>
      IN  {parse_stem(f.stem).inc :
             f \in {g \in inbox : /\ YearOf(g.date) = assigned[i].year
                                  /\ parse_stem(g.stem).ok}}
            = (Prior(assigned[i]) + 1)..Durable[key]

\* the run has ended and the process has not exited yet
Ended == pc \in {"done", "failed", "refused"}

\* C13: a run that found the inbox directory without a file, and a run that
\* found no inbox directory, end with an exit status different from the
\* status of a run that renamed files.
C13_StatusDistinguishes ==
  /\ (pc = "done" /\ \E i \in 1..Len(assigned) : assigned[i].ok) => status = EXIT_OK
  /\ (Ended /\ inboxDir /\ atStart.inbox = {}) => status /= EXIT_OK
  /\ (Ended /\ ~inboxDir) => status /= EXIT_OK

\* C14: during and after a dry run the whole filesystem is as the run found
\* it: inbox, destination roots, state directory and state files; nothing is
\* created, also when the state directory did not exist.
C14_DryRunNoMutation ==
  (pc /= "idle" /\ dry) =>
    /\ inbox = atStart.inbox
    /\ tree = atStart.tree
    /\ stateFiles = atStart.files
    /\ stateDir = atStart.dir

(***************************************************************************)
(* The auto-heal scan over many destination trees: the run is at the loop  *)
(* over the year groups, with one file in the inbox.                       *)
(***************************************************************************)
MaxTree == 4       \* files in the destination trees

InTree(root, dir, stem) == [root |-> root, dir |-> dir, stem |-> stem, ext |-> "jpg"]

\* files a destination tree may hold: canonical names of the event in the
\* five roots, and names or places the scan has to pass over
ScanPool ==
  { OnDisk("compresse"),
    InTree("library",    "trip",     <<"2024-05-02", "trip", "12">>),
    InTree("library",    "trip",     <<"2024-05-01", "trip", "03">>),
    InTree("library",    "trip",     <<"2024-05-01", "trip", "5", "dup1">>),
    InTree("brute",      "trip",     <<"2023-07-01", "trip", "7">>),
    InTree("video",      "trip",     <<"2024-05-01", "other", "9">>),
    InTree("audio",      "other",    <<"2024-05-01", "trip", "9">>),
    InTree("compressed", "trip",     <<"2024-05-02", "trip", "13">>),
    InTree("compresse",  "trip/sub", <<"2024-05-01", "trip", "9">>),
    InTree("library",    "trip",     <<"a">>),
    InTree("compresse",  "a_b",      <<"2024-05-01", "a", "b", "1">>) }

\* --event values of the scanned runs
ScanEvents == {"Trip", "a:b"}

InitScan ==
  /\ inboxDir = TRUE
  /\ \E d \in {"2023-07-01", "2024-05-01"} :
       inbox = {[stem |-> <<"a">>, ext |-> "JPG", date |-> d,
                 id |-> [stem |-> <<"a">>, ext |-> "JPG"]]}
  /\ arrived = Names(inbox)
  /\ tree \in {t \in SUBSET ScanPool : Cardinality(t) <= MaxTree}
  /\ stateDir = TRUE
  /\ \E f \in {Absent, Known} :
       stateFiles = [n \in {STATE_CSV, TmpPath(STATE_CSV)} |->
                       IF n = STATE_CSV THEN f ELSE Absent]
  /\ atStart = [inbox |-> inbox, tree |-> tree, dir |-> TRUE, files |-> stateFiles]
  /\ runs = 0
  /\ pc = "group"
  /\ dry \in BOOLEAN
  /\ event_slug \in {Slug(e) : e \in ScanEvents}
  /\ idx = read_index(stateFiles[STATE_CSV])
  /\ groups = YearGroups(Sorted(SortByName(inbox), NameKey(inbox)))
  /\ year = ""
  /\ lst = <<>>
  /\ next_inc = 0
  /\ status = -1
  /\ issued = <<>>
  /\ assigned = <<>>
  /\ commits = 0
  /\ plan = NoPlan
  /\ clobbered = FALSE

NextScan ==
  \/ BeginGroup
  \/ \E ok \in BOOLEAN : RenameFile(ok)
  \/ EndGroup

SpecScan == InitScan /\ [][NextScan]_vars

\* the files a scan for (event, yr) has to count: directly inside <event> of
\* one of the five roots, named <date of yr>_<event>_<digits>, with or
\* without a further _suffix
Counted(event, yr) ==
  {q \in tree : /\ q.root \in {"compresse", "brute", "video", "audio", "library"}
                /\ q.dir = event
                /\ Len(q.stem) >= 3
                /\ q.stem[1] \in DateSet /\ YearOf(q.stem[1]) = yr
                /\ q.stem[2] = event
                /\ IsDigits(q.stem[3])}

\* C15: the value a year group without an index entry starts from is the
\* highest increment of the counted files of the five roots, 0 when there is
\* none; files of other events, other years, other directories, other roots
\* and malformed names do not count; the scan changed no file and no entry.
C15_ScanIsMaxOfMatches ==
  (GroupFresh /\ <<event_slug, year>> \notin DOMAIN idx) =>
    LET r == next_inc - 1
        C == Counted(event_slug, year)
    IN  /\ C = {} => r = 0
        /\ C /= {} => /\ \E q \in C : ParseInt(q.stem[3]) = r
                      /\ \A q \in C : ParseInt(q.stem[3]) <= r
        /\ tree = atStart.tree
        /\ inbox = atStart.inbox
        /\ stateFiles = atStart.files
        /\ assigned = <<>> => idx = Loaded

\* C15 witness: the scan returned 5 for (trip, 2024) from
\* 2024-05-01_trip_5_dup1.jpg, with a higher increment in a root that is not
\* scanned and files of another event and another year next to it
C15_Witness ==
  /\ GroupFresh /\ <<event_slug, year>> \notin DOMAIN idx
  /\ event_slug = "trip" /\ year = "2024"
  /\ next_inc = 6
  /\ InTree("compressed", "trip", <<"2024-05-02", "trip", "13">>) \in tree
  /\ InTree("video", "trip", <<"2024-05-01", "other", "9">>) \in tree
  /\ InTree("brute", "trip", <<"2023-07-01", "trip", "7">>) \in tree

\* C16: the increment of a file is the smallest i >= next_inc, i >= 1, whose
\* name <date>_<event>_<i><ext> is not in the inbox when the file is
\* handled; every value passed over is the name of a file of the inbox; and
\* next_inc becomes i + 1.
C16_SmallestFree ==
  [][(pc = "file" /\ lst /= <<>>) =>
       LET p      == lst[1]
           ext    == Lower(p.ext)
           i      == assigned'[Len(assigned')].inc
           Cand(k) == TargetName(p.date, event_slug, k, ext)
       IN  /\ Len(assigned') = Len(assigned) + 1
           /\ i >= next_inc /\ i >= 1
           /\ Cand(i) \notin Names(inbox)
           /\ \A k \in 1..i : (k >= next_inc /\ k < i) => Cand(k) \in Names(inbox)
           /\ next_inc' = i + 1]_vars

\* C16 witness: two names of the inbox were passed over for one file
C16_Witness ==
  /\ pc = "file"
  /\ Len(assigned) >= 1
  /\ assigned[Len(assigned)].inc = assigned[Len(assigned)].first + 2

\* the files of year yr the run found in the inbox
FoundInYear(yr) == {f \in atStart.inbox : YearOf(f.date) = yr}

\* C17: within a year group a file whose (capture date, name) is smaller
\* gets the smaller increment, and what the run works on does not depend on
\* the order in which the inbox was listed: the groups are those of the
\* files sorted by name, and the files of a group are taken in the order of
\* (capture date, name).
C17_DeterministicOrder ==
  /\ \A i, j \in 1..Len(assigned) :
       (assigned[i].year = assigned[j].year
          /\ SeqLess(OrderKey(assigned[i]), OrderKey(assigned[j]))) =>
         assigned[i].inc < assigned[j].inc
  /\ (pc = "group" /\ assigned = <<>>) =>
       groups = YearGroups(SortByName(atStart.inbox))
  /\ GroupFresh => lst = SortByDateName(FoundInYear(year))

\* C17 witness: two files of one year whose order by name is the reverse of
\* their order by capture date; the file of the earlier date got the smaller
\* increment
C17_Witness ==
  \E i, j \in 1..Len(assigned) :
    /\ i < j /\ assigned[i].year = assigned[j].year
    /\ SeqLess(NameChars(NameOf(StartFile(assigned[j]))),
               NameChars(NameOf(StartFile(assigned[i]))))
    /\ SeqLess(Chars(StartFile(assigned[i]).date), Chars(StartFile(assigned[j]).date))
    /\ assigned[i].inc < assigned[j].inc

\* what a run assigned: the increment of every file
Mapping(notes) == {<<notes[i].id, notes[i].inc>> : i \in 1..Len(notes)}

\* this run started from the inbox, destination roots and index for which
\* the last dry run printed its plan, with the same --event
AsPlanned ==
  /\ plan.notes /= <<>>
  /\ plan.event = event_slug
  /\ plan.start.inbox = atStart.inbox
  /\ plan.start.tree = atStart.tree
  /\ plan.start.files = atStart.files

\* C18: a live run without a failed rename, started from the state a dry run
\* printed its plan for, gives every file the name of the plan.
C18_PlanEqualsLive ==
  (pc = "done" /\ ~dry /\ commits = 1 /\ AsPlanned
     /\ \A i \in 1..Len(assigned) : assigned[i].ok) =>
    Mapping(assigned) = Mapping(plan.notes)

\* C19: a file of a scanned root that has a name the rename step writes for
\* the slug of the run, <date>_<slug>_<k><ext> with the date in the year of
\* the group, makes the scan return at least k, for every slug main makes
\* from --event.
C19_HealRecognizesOwnNames ==
  (GroupFresh /\ <<event_slug, year>> \notin DOMAIN idx) =>
    \A q \in tree : \A d \in DateSet : \A k \in 1..IntCap :
      (/\ q.root \in ScanRoots
       /\ q.dir = event_slug
       /\ YearOf(d) = year
       /\ NameOf(q) = TargetName(d, event_slug, k, q.ext)) =>
        next_inc - 1 >= k

\* the keys a run writes: its event with the years of the files it found
OwnKeys == {<<event_slug, YearOf(f.date)>> : f \in atStart.inbox}

\* C20: after the commit of a live run every key of the loaded index is in
\* the committed index, and every key that is not (event, year) for a year of
\* the files of the run has the value it had.
C20_OtherKeysKept ==
  (pc = "done" /\ commits = 1) =>
    \A key \in DOMAIN Loaded :
      /\ key \in DOMAIN Durable
      /\ key \notin OwnKeys => Durable[key] = Loaded[key]

\* C20 witness: a live run for (trip, 2023) committed over an index that
\* held (other, 2024) -> 7 and (trip, 2024) -> 3
C20_Witness ==
  /\ pc = "done" /\ commits = 1
  /\ OwnKeys = {<<"trip", "2023">>}
  /\ Loaded = (<<"other", "2024">> :> 7) @@ (<<"trip", "2024">> :> 3)
  /\ Durable = Loaded @@ (<<"trip", "2023">> :> 1)

====
